---- MODULE Spec2Model ----
(***************************************************************************)
(* Interleaved RLE bitmap codec (libfreerdp/codec/interleaved.c).          *)
(*                                                                         *)
(* The context object, the opcode reader (ExtractCodeId, ExtractRunLength),*)
(* ensure_capacity, the pixel read/write macros and the two entry points   *)
(* interleaved_decompress / interleaved_compress are translated from       *)
(* interleaved.c.  The decoder template include/bitmap.c, the surface copy *)
(* freerdp_image_copy and the planar compressor freerdp_bitmap_compress    *)
(* are not part of interleaved.c; they are modelled from the written       *)
(* specification (sections 4.2 - 4.4 and 6) and are marked as such.        *)
(*                                                                         *)
(* Buffers are sequences of bytes; a C pointer into a buffer is a          *)
(* zero-based offset, so the byte at offset p of buffer b is b[p + 1].     *)
(***************************************************************************)
EXTENDS Integers, Naturals, Sequences, FiniteSets, TLC

(***************************************************************************)
(* Bit arithmetic on naturals.                                             *)
(***************************************************************************)
RECURSIVE BitAnd(_, _)
BitAnd(a, b) ==
  IF a = 0 \/ b = 0 THEN 0
  ELSE (IF (a % 2 = 1) /\ (b % 2 = 1) THEN 1 ELSE 0) + 2 * BitAnd(a \div 2, b \div 2)

RECURSIVE BitOr(_, _)
BitOr(a, b) ==
  IF a = 0 THEN b
  ELSE IF b = 0 THEN a
  ELSE (IF (a % 2 = 1) \/ (b % 2 = 1) THEN 1 ELSE 0) + 2 * BitOr(a \div 2, b \div 2)

RECURSIVE BitXor(_, _)
BitXor(a, b) ==
  IF a = 0 THEN b
  ELSE IF b = 0 THEN a
  ELSE (IF (a % 2) # (b % 2) THEN 1 ELSE 0) + 2 * BitXor(a \div 2, b \div 2)

RECURSIVE Pow2(_)
Pow2(n) == IF n = 0 THEN 1 ELSE 2 * Pow2(n - 1)

ShiftRight(a, n) == a \div Pow2(n)
ShiftLeft(a, n) == a * Pow2(n)

UINT16(x) == x % Pow2(16)
BYTE(x) == x % Pow2(8)

(***************************************************************************)
(* Order codes (interleaved.c, lines 69 - 88).                             *)
(***************************************************************************)
REGULAR_BG_RUN == 0
MEGA_MEGA_BG_RUN == 240
REGULAR_FG_RUN == 1
MEGA_MEGA_FG_RUN == 241
LITE_SET_FG_FG_RUN == 12
MEGA_MEGA_SET_FG_RUN == 246
LITE_DITHERED_RUN == 14
MEGA_MEGA_DITHERED_RUN == 248
REGULAR_COLOR_RUN == 3
MEGA_MEGA_COLOR_RUN == 243
REGULAR_FGBG_IMAGE == 2
MEGA_MEGA_FGBG_IMAGE == 242
LITE_SET_FG_FGBG_IMAGE == 13
MEGA_MEGA_SET_FGBG_IMAGE == 247
REGULAR_COLOR_IMAGE == 4
MEGA_MEGA_COLOR_IMAGE == 244
SPECIAL_FGBG_1 == 249
SPECIAL_FGBG_2 == 250
SPECIAL_WHITE == 253
SPECIAL_BLACK == 254

BLACK_PIXEL == 0

g_MaskSpecialFgBg1 == 3
g_MaskSpecialFgBg2 == 5
g_MaskRegularRunLength == 31
g_MaskLiteRunLength == 15

(***************************************************************************)
(* ExtractCodeId: the order code of a lead byte.                           *)
(***************************************************************************)
\* variant: every lead byte with the two top bits set is returned as it is
ExtractCodeId_NoLite(bOrderHdr) ==
  IF BitAnd(bOrderHdr, 192) # 192 THEN ShiftRight(bOrderHdr, 5)
  ELSE bOrderHdr

\* variant: the REGULAR class shifted by 4 as the LITE class is
ExtractCodeId_Shift4(bOrderHdr) ==
  IF BitAnd(bOrderHdr, 192) # 192 THEN ShiftRight(bOrderHdr, 4)
  ELSE IF BitAnd(bOrderHdr, 240) = 240 THEN bOrderHdr
  ELSE ShiftRight(bOrderHdr, 4)

ExtractCodeId(bOrderHdr) ==
  IF BitAnd(bOrderHdr, 192) # 192 THEN ShiftRight(bOrderHdr, 5)
  ELSE IF BitAnd(bOrderHdr, 240) = 240 THEN bOrderHdr
  ELSE ShiftRight(bOrderHdr, 4)

(***************************************************************************)
(* A dereference of the source buffer at offset p.  Offsets at or beyond   *)
(* the end of the buffer are outside the object; the value delivered       *)
(* there is not determined by the program, and the offset is reported in   *)
(* the "reads" set of the reader so that the access is visible.            *)
(***************************************************************************)
Deref(buf, p) == IF p >= 0 /\ p < Len(buf) THEN buf[p + 1] ELSE 0

RunLengthResult(len, adv, rd) == [runLength |-> len, advance |-> adv, reads |-> rd]

\* ExtractRunLength with the extended LITE run counted from 32 as the REGULAR
\* run is
ExtractRunLength_LiteFrom32(code, src, hdr, end, advance) ==
  IF hdr >= end THEN RunLengthResult(0, advance, {})
  ELSE IF code \in {240, 241, 242, 243, 244, 246, 247, 248} THEN
    IF hdr + 2 >= end THEN RunLengthResult(0, advance, {})
    ELSE RunLengthResult(Deref(src, hdr + 1) + 256 * Deref(src, hdr + 2), 3,
                         {hdr + 1, hdr + 2})
  ELSE IF code \in {0, 1, 2, 3, 4, 12, 13, 14} THEN
    LET field == IF code < 12 THEN Deref(src, hdr) % 32 ELSE Deref(src, hdr) % 16
        image == code \in {2, 13}
    IN IF field = 0
       THEN IF hdr + 1 >= end THEN RunLengthResult(0, advance, {hdr})
            ELSE RunLengthResult(Deref(src, hdr + 1) + (IF image THEN 1 ELSE 32),
                                 2, {hdr, hdr + 1})
       ELSE RunLengthResult(IF image THEN field * 8 ELSE field, 1, {hdr})
  ELSE RunLengthResult(0, 1, {})

\* ExtractRunLength with the end tests written with > in place of >=
ExtractRunLength_OffByOne(code, src, hdr, end, advance) ==
  IF hdr >= end THEN RunLengthResult(0, advance, {})
  ELSE IF code \in {240, 241, 242, 243, 244, 246, 247, 248} THEN
    IF hdr + 2 > end THEN RunLengthResult(0, advance, {})
    ELSE RunLengthResult(Deref(src, hdr + 1) + 256 * Deref(src, hdr + 2), 3,
                         {hdr + 1, hdr + 2})
  ELSE IF code \in {0, 1, 2, 3, 4, 12, 13, 14} THEN
    LET field == IF code < 12 THEN Deref(src, hdr) % 32 ELSE Deref(src, hdr) % 16
        image == code \in {2, 13}
    IN IF field = 0
       THEN IF hdr + 1 > end THEN RunLengthResult(0, advance, {hdr})
            ELSE RunLengthResult(
                   Deref(src, hdr + 1)
                     + (IF image THEN 1 ELSE IF code < 12 THEN 32 ELSE 16),
                   2, {hdr, hdr + 1})
       ELSE RunLengthResult(IF image THEN field * 8 ELSE field, 1, {hdr})
  ELSE RunLengthResult(0, 1, {})

(***************************************************************************)
(* ExtractRunLength(code, pbOrderHdr, pbEnd, &advance).  src is the source *)
(* buffer, hdr the offset of the order header, end the offset pbEnd and    *)
(* advance the caller's value of *advance before the call.  The result     *)
(* gives the returned run length, the value of *advance after the call     *)
(* (untouched on the early returns) and the offsets that were read.        *)
(***************************************************************************)
ExtractRunLength(code, src, hdr, end, advance) ==
  IF hdr >= end THEN RunLengthResult(0, advance, {})
  ELSE IF code \in {REGULAR_FGBG_IMAGE, LITE_SET_FG_FGBG_IMAGE} THEN
    LET mask == IF code = REGULAR_FGBG_IMAGE THEN g_MaskRegularRunLength
                ELSE g_MaskLiteRunLength
        field == BitAnd(Deref(src, hdr), mask)
    IN IF field = 0
       THEN IF hdr + 1 >= end THEN RunLengthResult(0, advance, {hdr})
            ELSE RunLengthResult(Deref(src, hdr + 1) + 1, 2, {hdr, hdr + 1})
       ELSE RunLengthResult(field * 8, 1, {hdr})
  ELSE IF code \in {REGULAR_BG_RUN, REGULAR_FG_RUN, REGULAR_COLOR_RUN,
                    REGULAR_COLOR_IMAGE} THEN
    LET field == BitAnd(Deref(src, hdr), g_MaskRegularRunLength)
    IN IF field = 0
       THEN IF hdr + 1 >= end THEN RunLengthResult(0, advance, {hdr})
            ELSE RunLengthResult(Deref(src, hdr + 1) + 32, 2, {hdr, hdr + 1})
       ELSE RunLengthResult(field, 1, {hdr})
  ELSE IF code \in {LITE_SET_FG_FG_RUN, LITE_DITHERED_RUN} THEN
    LET field == BitAnd(Deref(src, hdr), g_MaskLiteRunLength)
    IN IF field = 0
       THEN IF hdr + 1 >= end THEN RunLengthResult(0, advance, {hdr})
            ELSE RunLengthResult(Deref(src, hdr + 1) + 16, 2, {hdr, hdr + 1})
       ELSE RunLengthResult(field, 1, {hdr})
  ELSE IF code \in {MEGA_MEGA_BG_RUN, MEGA_MEGA_FG_RUN, MEGA_MEGA_SET_FG_RUN,
                    MEGA_MEGA_DITHERED_RUN, MEGA_MEGA_COLOR_RUN,
                    MEGA_MEGA_FGBG_IMAGE, MEGA_MEGA_SET_FGBG_IMAGE,
                    MEGA_MEGA_COLOR_IMAGE} THEN
    IF hdr + 2 >= end THEN RunLengthResult(0, advance, {})
    ELSE RunLengthResult(
           BitOr(UINT16(Deref(src, hdr + 1)), UINT16(ShiftLeft(Deref(src, hdr + 2), 8))),
           3, {hdr + 1, hdr + 2})
  ELSE RunLengthResult(0, 1, {})

\* ensure_capacity without the element size
ensure_capacity_NoBase(start, end, size, base) ==
  (start <= end) /\ ((end - start) >= size)

\* ensure_capacity with its two tests joined by "or"
ensure_capacity_Or(start, end, size, base) ==
  ((end - start) >= size * base) \/ (start <= end)

(***************************************************************************)
(* ensure_capacity(start, end, size, base).  The pointer difference is     *)
(* taken in uintptr_t arithmetic: when start lies beyond end it wraps to a *)
(* value above every size * base a tile can ask for, so rc is TRUE there   *)
(* and the result is decided by the second conjunct, start <= end.         *)
(***************************************************************************)
ensure_capacity(start, end, size, base) ==
  LET rc == IF start <= end THEN (end - start) >= size * base ELSE TRUE
  IN rc /\ (start <= end)

(***************************************************************************)
(* Pixel access at the three depths (the macro blocks in front of the      *)
(* three inclusions of the decoder template).  Bpp is the number of bytes  *)
(* of a pixel: 1, 2 or 3.                                                  *)
(***************************************************************************)
\* variant: the white of the 24 bpp decoder cut to 16 bits
WHITE_PIXEL_Cut16(Bpp) == IF Bpp = 1 THEN 255 ELSE 65535

WHITE_PIXEL(Bpp) == IF Bpp = 1 THEN 255 ELSE IF Bpp = 2 THEN 65535 ELSE 16777215

\* variant: the top bit of the pixel is lost
write_pixel_8_Low7(pix) == <<BitAnd(pix, 127)>>

write_pixel_8(pix) == <<BYTE(pix)>>

\* variant: the two bytes of the pixel stored most significant byte first
write_pixel_16_BigEndian(pix) ==
  <<BitAnd(ShiftRight(UINT16(pix), 8), 255), BitAnd(UINT16(pix), 255)>>

write_pixel_16(pix) ==
  <<BitAnd(UINT16(pix), 255), BitAnd(ShiftRight(UINT16(pix), 8), 255)>>

write_pixel_24(pix) ==
  <<BYTE(pix), BYTE(ShiftRight(pix, 8)), BYTE(ShiftRight(pix, 16))>>

\* the byte at offset p of buf becomes b; the buffer holds the bytes stored so far
StoreByte(buf, p, b) ==
  IF p < Len(buf) THEN [buf EXCEPT ![p + 1] = b]
  ELSE IF p = Len(buf) THEN Append(buf, b)
  ELSE buf

RECURSIVE StoreBytes(_, _, _)
StoreBytes(buf, p, bytes) ==
  IF bytes = <<>> THEN buf
  ELSE StoreBytes(StoreByte(buf, p, Head(bytes)), p + 1, Tail(bytes))

DESTWRITEPIXEL(buf, p, pix, Bpp) ==
  StoreBytes(buf, p, IF Bpp = 1 THEN write_pixel_8(pix)
                     ELSE IF Bpp = 2 THEN write_pixel_16(pix)
                     ELSE write_pixel_24(pix))

\* variant: the 16 bit read composes the two bytes in big-endian order
DESTREADPIXEL_BigEndian16(buf, p, Bpp) ==
  IF Bpp = 1 THEN Deref(buf, p)
  ELSE IF Bpp = 2 THEN BitOr(ShiftLeft(Deref(buf, p), 8), Deref(buf, p + 1))
  ELSE BitOr(BitOr(Deref(buf, p), ShiftLeft(Deref(buf, p + 1), 8)),
             ShiftLeft(Deref(buf, p + 2), 16))

\* the 16 bit read goes through a UINT16 pointer; the byte order is that of a
\* little-endian host
DESTREADPIXEL(buf, p, Bpp) ==
  IF Bpp = 1 THEN Deref(buf, p)
  ELSE IF Bpp = 2 THEN BitOr(Deref(buf, p), ShiftLeft(Deref(buf, p + 1), 8))
  ELSE BitOr(BitOr(Deref(buf, p), ShiftLeft(Deref(buf, p + 1), 8)),
             ShiftLeft(Deref(buf, p + 2), 16))

SRCREADPIXEL(buf, p, Bpp) ==
  IF Bpp = 1 THEN Deref(buf, p)
  ELSE IF Bpp = 2 THEN BitOr(Deref(buf, p), ShiftLeft(Deref(buf, p + 1), 8))
  ELSE BitOr(BitOr(Deref(buf, p), ShiftLeft(Deref(buf, p + 1), 8)),
             ShiftLeft(Deref(buf, p + 2), 16))

DESTNEXTPIXEL(p, Bpp) == p + Bpp
SRCNEXTPIXEL(p, Bpp) == p + Bpp

ENSURE_CAPACITY(start, end, size, Bpp) == ensure_capacity(start, end, size, Bpp)

(***************************************************************************)
(* The RLE decoder (template include/bitmap.c, instantiated three times as *)
(* RleDecompress8to8 / 16to16 / 24to24).  The template is not part of      *)
(* interleaved.c; the definitions of this section follow the written       *)
(* description of the decoder: the order semantics, the scanline window    *)
(* and the tile driver.                                                    *)
(*                                                                         *)
(* A decoder state d has the input cursor pbSrc, the output cursor pbDest  *)
(* (byte offsets), the current foreground fgPel, the result so far         *)
(* (cause = "None" while no check has failed), the code and run length of  *)
(* the order executed last, and two marks: readHigh is one more than the   *)
(* highest input offset read and writeHigh one more than the highest       *)
(* output offset written during the call.                                  *)
(***************************************************************************)
SetMax(S) == IF S = {} THEN 0 ELSE CHOOSE m \in S : \A x \in S : x <= m
Max(a, b) == IF a >= b THEN a ELSE b

DecoderInit(Bpp) ==
  [pbSrc |-> 0, pbDest |-> 0, fgPel |-> WHITE_PIXEL(Bpp), cause |-> "None",
   code |-> 255, runLength |-> 0, readHigh |-> 0, writeHigh |-> 0]

\* the codes whose length comes from ExtractRunLength
LengthCodes ==
  {REGULAR_BG_RUN, MEGA_MEGA_BG_RUN, REGULAR_FG_RUN, MEGA_MEGA_FG_RUN,
   LITE_SET_FG_FG_RUN, MEGA_MEGA_SET_FG_RUN, LITE_DITHERED_RUN,
   MEGA_MEGA_DITHERED_RUN, REGULAR_COLOR_RUN, MEGA_MEGA_COLOR_RUN,
   REGULAR_FGBG_IMAGE, MEGA_MEGA_FGBG_IMAGE, LITE_SET_FG_FGBG_IMAGE,
   MEGA_MEGA_SET_FGBG_IMAGE, REGULAR_COLOR_IMAGE, MEGA_MEGA_COLOR_IMAGE}

SpecialCodes == {SPECIAL_FGBG_1, SPECIAL_FGBG_2, SPECIAL_WHITE, SPECIAL_BLACK}

\* opcode reader: (opcode, length, advance) of the order at the input cursor;
\* advance = 0 reports that an extension byte lies beyond the input.  A code
\* that is no order has the length and the advance ExtractRunLength gives it
\* (0 and 1: no case of its switch is taken).
ReadOrderHeader(src, pbSrc) ==
  LET code == ExtractCodeId(Deref(src, pbSrc))
      rl == ExtractRunLength(code, src, pbSrc, Len(src), 0)
  IN IF code \in LengthCodes
     THEN [code |-> code, runLength |-> rl.runLength, advance |-> rl.advance,
           reads |-> rl.reads \cup {pbSrc}]
     ELSE IF code \in {SPECIAL_FGBG_1, SPECIAL_FGBG_2}
     THEN [code |-> code, runLength |-> 8, advance |-> 1, reads |-> {pbSrc}]
     ELSE IF code \in {SPECIAL_WHITE, SPECIAL_BLACK}
     THEN [code |-> code, runLength |-> 1, advance |-> 1, reads |-> {pbSrc}]
     ELSE [code |-> code, runLength |-> rl.runLength, advance |-> rl.advance,
           reads |-> {pbSrc}]

\* the write window of the scanline that holds the output cursor
EndOfScanline(pbDest, rowDelta) == ((pbDest \div rowDelta) + 1) * rowDelta
FirstLine(pbDest, rowDelta) == pbDest < rowDelta

\* the background of the pixel at pbDest: BLACK on the first scanline, the
\* pixel directly above otherwise
Background(buf, pbDest, Bpp, rowDelta) ==
  IF FirstLine(pbDest, rowDelta) THEN BLACK_PIXEL
  ELSE DESTREADPIXEL(buf, pbDest - rowDelta, Bpp)

\* n pixels, each the background XOR x (x = BLACK: background run, x = the
\* foreground: foreground run)
RECURSIVE WriteRun(_, _, _, _, _, _)
WriteRun(buf, pbDest, n, x, Bpp, rowDelta) ==
  IF n = 0 THEN buf
  ELSE WriteRun(DESTWRITEPIXEL(buf, pbDest,
                               BitXor(Background(buf, pbDest, Bpp, rowDelta), x), Bpp),
                DESTNEXTPIXEL(pbDest, Bpp), n - 1, x, Bpp, rowDelta)

\* n pixels taken in turn from the sequence pix, repeated
RECURSIVE WritePattern(_, _, _, _, _, _)
WritePattern(buf, pbDest, n, pix, k, Bpp) ==
  IF n = 0 THEN buf
  ELSE WritePattern(DESTWRITEPIXEL(buf, pbDest, pix[k], Bpp),
                    DESTNEXTPIXEL(pbDest, Bpp), n - 1, pix,
                    (k % Len(pix)) + 1, Bpp)

\* n pixels copied from the input
RECURSIVE CopyPixels(_, _, _, _, _, _)
CopyPixels(buf, pbDest, src, pbSrc, n, Bpp) ==
  IF n = 0 THEN buf
  ELSE CopyPixels(DESTWRITEPIXEL(buf, pbDest, SRCREADPIXEL(src, pbSrc, Bpp), Bpp),
                  DESTNEXTPIXEL(pbDest, Bpp), src, SRCNEXTPIXEL(pbSrc, Bpp),
                  n - 1, Bpp)

\* cBits pixels selected by the bits of one mask byte, least significant first
RECURSIVE WriteFgBgImage(_, _, _, _, _, _, _)
WriteFgBgImage(buf, pbDest, bitmask, fgPel, cBits, Bpp, rowDelta) ==
  IF cBits = 0 THEN buf
  ELSE LET bg == Background(buf, pbDest, Bpp, rowDelta)
           pix == IF bitmask % 2 = 1 THEN BitXor(bg, fgPel) ELSE bg
       IN WriteFgBgImage(DESTWRITEPIXEL(buf, pbDest, pix, Bpp),
                         DESTNEXTPIXEL(pbDest, Bpp), bitmask \div 2, fgPel,
                         cBits - 1, Bpp, rowDelta)

\* a foreground/background image of n pixels with its mask bytes at pbSrc
RECURSIVE WriteFgBgBytes(_, _, _, _, _, _, _, _)
WriteFgBgBytes(buf, pbDest, src, pbSrc, n, fgPel, Bpp, rowDelta) ==
  IF n = 0 THEN buf
  ELSE LET cBits == IF n >= 8 THEN 8 ELSE n
       IN WriteFgBgBytes(
            WriteFgBgImage(buf, pbDest, Deref(src, pbSrc), fgPel, cBits, Bpp, rowDelta),
            pbDest + cBits * Bpp, src, pbSrc + 1, n - cBits, fgPel, Bpp, rowDelta)

MaskBytes(n) == (n + 7) \div 8
Range(a, b) == {x \in a .. (b - 1) : TRUE}

BgRunCodes == {REGULAR_BG_RUN, MEGA_MEGA_BG_RUN}
FgRunCodes == {REGULAR_FG_RUN, MEGA_MEGA_FG_RUN}
SetFgRunCodes == {LITE_SET_FG_FG_RUN, MEGA_MEGA_SET_FG_RUN}
DitheredRunCodes == {LITE_DITHERED_RUN, MEGA_MEGA_DITHERED_RUN}
ColorRunCodes == {REGULAR_COLOR_RUN, MEGA_MEGA_COLOR_RUN}
ColorImageCodes == {REGULAR_COLOR_IMAGE, MEGA_MEGA_COLOR_IMAGE}
FgBgImageCodes == {REGULAR_FGBG_IMAGE, MEGA_MEGA_FGBG_IMAGE}
SetFgFgBgImageCodes == {LITE_SET_FG_FGBG_IMAGE, MEGA_MEGA_SET_FGBG_IMAGE}
SpecialFgBgCodes == {SPECIAL_FGBG_1, SPECIAL_FGBG_2}
SpecialPixelCodes == {SPECIAL_WHITE, SPECIAL_BLACK}

\* input pixels an order carries after its header
PixelsIn(code, runLength) ==
  IF code \in SetFgRunCodes \cup SetFgFgBgImageCodes \cup ColorRunCodes THEN 1
  ELSE IF code \in DitheredRunCodes THEN 2
  ELSE IF code \in ColorImageCodes THEN runLength
  ELSE 0

\* mask bytes an order carries after its header and pixels
MasksIn(code, runLength) ==
  IF code \in FgBgImageCodes \cup SetFgFgBgImageCodes THEN MaskBytes(runLength)
  ELSE 0

\* output pixels an order produces
PixelsOut(code, runLength) ==
  IF code \in DitheredRunCodes THEN 2 * runLength ELSE runLength

High(reads) == IF reads = {} THEN 0 ELSE SetMax(reads) + 1

(***************************************************************************)
(* One order executed against the output buffer buf: the header is read,   *)
(* the input and output capacity are confirmed, then the order writes.     *)
(* The result is the new decoder state and the new buffer; a failed check  *)
(* sets cause and writes nothing.                                          *)
(* What the decoder does with a lead byte whose code is no order is told   *)
(* neither by the specification nor by interleaved.c (the decoder template *)
(* is not among the sources): refuse tells which of the two ways open to   *)
(* it is taken, the failure of the tile or the step over the lead byte     *)
(* with nothing written.                                                   *)
(***************************************************************************)
ExecOrder(src, buf, d, Bpp, rowDelta, refuse) ==
  LET h == ReadOrderHeader(src, d.pbSrc)
      pbEnd == Len(src)
      p1 == d.pbSrc + h.advance
      nIn == PixelsIn(h.code, h.runLength)
      nMask == MasksIn(h.code, h.runLength)
      nOut == PixelsOut(h.code, h.runLength)
      p2 == p1 + nIn * Bpp
      p3 == p2 + nMask
      eol == EndOfScanline(d.pbDest, rowDelta)
      newDest == d.pbDest + nOut * Bpp
      fg == IF h.code \in SetFgRunCodes \cup SetFgFgBgImageCodes
            THEN SRCREADPIXEL(src, p1, Bpp) ELSE d.fgPel
      failed(cause) ==
        [d |-> [d EXCEPT !.cause = cause, !.code = h.code,
                         !.runLength = h.runLength,
                         !.readHigh = Max(@, High(h.reads))],
         buf |-> buf]
      written ==
        IF h.code \in BgRunCodes
          THEN WriteRun(buf, d.pbDest, nOut, BLACK_PIXEL, Bpp, rowDelta)
        ELSE IF h.code \in FgRunCodes \cup SetFgRunCodes
          THEN WriteRun(buf, d.pbDest, nOut, fg, Bpp, rowDelta)
        ELSE IF h.code \in DitheredRunCodes
          THEN WritePattern(buf, d.pbDest, nOut,
                            <<SRCREADPIXEL(src, p1, Bpp),
                              SRCREADPIXEL(src, p1 + Bpp, Bpp)>>, 1, Bpp)
        ELSE IF h.code \in ColorRunCodes
          THEN WritePattern(buf, d.pbDest, nOut, <<SRCREADPIXEL(src, p1, Bpp)>>, 1, Bpp)
        ELSE IF h.code \in ColorImageCodes
          THEN CopyPixels(buf, d.pbDest, src, p1, nOut, Bpp)
        ELSE IF h.code \in FgBgImageCodes \cup SetFgFgBgImageCodes
          THEN WriteFgBgBytes(buf, d.pbDest, src, p2, nOut, fg, Bpp, rowDelta)
        ELSE IF h.code = SPECIAL_FGBG_1
          THEN WriteFgBgImage(buf, d.pbDest, g_MaskSpecialFgBg1, fg, 8, Bpp, rowDelta)
        ELSE IF h.code = SPECIAL_FGBG_2
          THEN WriteFgBgImage(buf, d.pbDest, g_MaskSpecialFgBg2, fg, 8, Bpp, rowDelta)
        ELSE IF h.code = SPECIAL_WHITE
          THEN DESTWRITEPIXEL(buf, d.pbDest, WHITE_PIXEL(Bpp), Bpp)
        ELSE DESTWRITEPIXEL(buf, d.pbDest, BLACK_PIXEL, Bpp)
  IN IF h.code \notin LengthCodes \cup SpecialCodes
     THEN IF refuse THEN failed("NoOrder")
          ELSE [d |-> [d EXCEPT !.pbSrc = p1, !.code = h.code,
                                !.runLength = h.runLength,
                                !.readHigh = Max(@, High(h.reads))],
                buf |-> buf]
     ELSE IF h.advance = 0 THEN failed("Truncated")
     ELSE IF ~ (ENSURE_CAPACITY(p1, pbEnd, nIn, Bpp) /\ ensure_capacity(p2, pbEnd, nMask, 1))
       THEN failed("Truncated")
     ELSE IF ~ ENSURE_CAPACITY(d.pbDest, eol, nOut, Bpp) THEN failed("Overflow")
     ELSE [d |-> [d EXCEPT !.pbSrc = p3, !.pbDest = newDest, !.fgPel = fg,
                           !.code = h.code, !.runLength = h.runLength,
                           !.readHigh = Max(@, High(h.reads \cup Range(p1, p3))),
                           !.writeHigh = Max(@, IF nOut = 0 THEN 0 ELSE newDest)],
           buf |-> written]

(***************************************************************************)
(* freerdp_image_copy as used by interleaved_decompress: the decoded tile  *)
(* is copied to the destination surface vertically flipped (the top        *)
(* scanline of the decoded tile becomes the bottom row).  The function is  *)
(* not part of interleaved.c; source and destination are taken to have the *)
(* same pixel format and the destination to be exactly the tile.           *)
(***************************************************************************)
RECURSIVE FlipRows(_, _, _)
FlipRows(buf, rowDelta, rows) ==
  IF rows = 0 THEN <<>>
  ELSE SubSeq(buf, (rows - 1) * rowDelta + 1, rows * rowDelta)
       \o FlipRows(buf, rowDelta, rows - 1)

freerdp_image_copy_flip(buf, rowDelta, height) == FlipRows(buf, rowDelta, height)

(***************************************************************************)
(* The context (struct S_BITMAP_INTERLEAVED_CONTEXT) and the state of the  *)
(* caller.                                                                 *)
(*   ctx       Compressor, TempSize, TempBuffer, bts.  TempBuffer is NULL  *)
(*             (null = TRUE) or a block of cap bytes whose first           *)
(*             Len(bytes) bytes have been stored; bts is the position of   *)
(*             the scratch stream.                                         *)
(*   pc        "idle" between calls, "rle" while the RLE decoder of an     *)
(*             interleaved_decompress call runs.                           *)
(*   call      the arguments and the return value of the last call; oom    *)
(*             tells that an allocation of the call failed, copy and       *)
(*             encoded what freerdp_image_copy and                         *)
(*             freerdp_bitmap_compress returned to the call ("none" when   *)
(*             the call did not reach them).                               *)
(*   pc        also "freed" once bitmap_interleaved_context_free has       *)
(*             released the context; no call is made on it after that.     *)
(*   rle       the local state of the RLE decoder of the last              *)
(*             interleaved_decompress call.                                *)
(*   pDstData  the destination surface of interleaved_decompress.          *)
(*   cDstData, pDstSize   the output buffer of interleaved_compress and    *)
(*             the caller's size variable.                                 *)
(*   tile      the source tile of the last interleaved_compress call.      *)
(***************************************************************************)
VARIABLES ctx, pc, call, rle, pDstData, cDstData, pDstSize, tile

vars == <<ctx, pc, call, rle, pDstData, cDstData, pDstSize, tile>>

DefaultTempSize == 64 * 64 * 4

\* bitmap_interleaved_context_new, both allocations succeeding; calloc leaves
\* Compressor FALSE
bitmap_interleaved_context_new ==
  [Compressor |-> FALSE,
   TempSize |-> DefaultTempSize,
   TempBuffer |-> [null |-> FALSE, cap |-> DefaultTempSize, bytes |-> <<>>],
   bts |-> 0]

NoCall ==
  [op |-> "none", src |-> <<>>, width |-> 0, height |-> 0, bpp |-> 0,
   nullArg |-> "none", DstSize |-> 0, oom |-> FALSE, copy |-> "none",
   encoded |-> "none", ret |-> "none"]

Init ==
  /\ ctx = bitmap_interleaved_context_new
  /\ pc = "idle"
  /\ call = NoCall
  /\ rle = DecoderInit(1)
  /\ pDstData = <<>>
  /\ cDstData = <<>>
  /\ pDstSize = 0
  /\ tile = <<>>

\* variant: a 32 bpp branch next to the four of the code
DecompressSrcFormat_Accept32(bpp) ==
  IF bpp = 32 THEN "PIXEL_FORMAT_BGRX32"
  ELSE IF bpp = 24 THEN "PIXEL_FORMAT_BGR24"
  ELSE IF bpp = 16 THEN "PIXEL_FORMAT_RGB16"
  ELSE IF bpp = 15 THEN "PIXEL_FORMAT_RGB15"
  ELSE IF bpp = 8 THEN "PIXEL_FORMAT_RGB8"
  ELSE "none"

\* the first depth switch of interleaved_decompress (lines 350 - 375): the
\* source format, "none" for the default branch, which returns FALSE
DecompressSrcFormat(bpp) ==
  IF bpp = 24 THEN "PIXEL_FORMAT_BGR24"
  ELSE IF bpp = 16 THEN "PIXEL_FORMAT_RGB16"
  ELSE IF bpp = 15 THEN "PIXEL_FORMAT_RGB15"
  ELSE IF bpp = 8 THEN "PIXEL_FORMAT_RGB8"
  ELSE "none"

\* the 15 bpp branch taking the scanline of the 8 bpp branch
BytesPerPixel_15As8(bpp) ==
  IF bpp = 24 THEN 3 ELSE IF bpp = 16 THEN 2 ELSE IF bpp \in {8, 15} THEN 1 ELSE 0

\* the factor of scanline in the same switch, which is also the pixel size of
\* the decoder chosen by the second switch (lines 388 - 414); 0 for a depth
\* neither switch knows
BytesPerPixel(bpp) ==
  IF bpp = 24 THEN 3 ELSE IF bpp \in {15, 16} THEN 2 ELSE IF bpp = 8 THEN 1 ELSE 0

\* the product of two UINT32 values, modulo 2^32 as the C multiplication
\* gives it, computed on 16 bit halves so that no intermediate value leaves
\* the integers of the model checker.  The arguments are below 2^31; a result
\* of 2^31 or more has no integer to stand for it and the evaluation stops
\* with an overflow, so the calls of the model keep the results below 2^31.
MulU32(a, b) ==
  LET al == a % 65536
      ah == a \div 65536
      bl == b % 65536
      bh == b \div 65536
      p0 == al * (bl % 256)
      p1 == al * (bl \div 256)
      t == p0 + 256 * (p1 % 256)
      lo == t % 65536
      carry == (t \div 65536) + (p1 \div 256)
      hi == (carry + ((ah * bl) % 65536) + ((al * bh) % 65536)) % 65536
  IN hi * 65536 + lo

(***************************************************************************)
(* interleaved_decompress, from entry to the call of the RLE decoder       *)
(* (lines 347 - 386): argument checks, scanline and buffer size, growth of *)
(* the scratch buffer.  reallocOk is the outcome of _aligned_realloc.      *)
(***************************************************************************)
DecompressEnter(src, width, height, bpp, nullArg, reallocOk) ==
  LET c == [op |-> "decompress", src |-> src, width |-> width, height |-> height,
            bpp |-> bpp, nullArg |-> nullArg, DstSize |-> 0, oom |-> FALSE,
            copy |-> "none", encoded |-> "none", ret |-> "pending"]
      scanline == MulU32(width, BytesPerPixel(bpp))
      BufferSize == MulU32(scanline, height)
      grown == IF BufferSize > ctx.TempSize
               THEN [ctx EXCEPT !.TempBuffer =
                                   IF reallocOk
                                   THEN [null |-> FALSE, cap |-> BufferSize,
                                         bytes |-> ctx.TempBuffer.bytes]
                                   ELSE [null |-> TRUE, cap |-> 0, bytes |-> <<>>],
                                !.TempSize = BufferSize]
               ELSE ctx
  IN /\ pc = "idle"
     /\ UNCHANGED <<pDstData, cDstData, pDstSize, tile>>
     /\ IF nullArg # "none" \/ DecompressSrcFormat(bpp) = "none"
        THEN /\ call' = [c EXCEPT !.ret = "FALSE"]
             /\ UNCHANGED <<ctx, pc, rle>>
        ELSE /\ ctx' = grown
             /\ IF grown.TempBuffer.null
                THEN /\ call' = [c EXCEPT !.ret = "FALSE", !.oom = TRUE]
                     /\ UNCHANGED <<pc, rle>>
                ELSE /\ call' = c
                     /\ pc' = "rle"
                     /\ rle' = DecoderInit(BytesPerPixel(bpp))

\* scanline and BufferSize of the call in progress, both UINT32 products
RowDelta == MulU32(call.width, BytesPerPixel(call.bpp))
TileBytes == MulU32(RowDelta, call.height)

\* the RLE decoder returns FALSE: interleaved_decompress returns FALSE
RleFail(d) ==
  /\ rle' = d
  /\ call' = [call EXCEPT !.ret = "FALSE"]
  /\ pc' = "idle"

\* the code of the order at the input cursor
OrderCode == ExtractCodeId(Deref(call.src, rle.pbSrc))

\* one order is executed; a failed check ends the call
RleOrder ==
  /\ pc = "rle"
  /\ rle.pbDest < TileBytes
  /\ rle.pbSrc < Len(call.src)
  /\ \E refuse \in IF OrderCode \in LengthCodes \cup SpecialCodes
                    THEN {FALSE} ELSE BOOLEAN :
       LET r == ExecOrder(call.src, ctx.TempBuffer.bytes, rle,
                          BytesPerPixel(call.bpp), RowDelta, refuse)
       IN /\ ctx' = [ctx EXCEPT !.TempBuffer.bytes = r.buf]
          /\ IF r.d.cause # "None"
             THEN RleFail(r.d)
             ELSE /\ rle' = r.d
                  /\ UNCHANGED <<pc, call>>
  /\ UNCHANGED <<pDstData, cDstData, pDstSize, tile>>

\* the input ends before the tile is complete
RleTruncated ==
  /\ pc = "rle"
  /\ rle.pbDest < TileBytes
  /\ rle.pbSrc >= Len(call.src)
  /\ RleFail([rle EXCEPT !.cause = "Truncated"])
  /\ UNCHANGED <<ctx, pDstData, cDstData, pDstSize, tile>>

\* a BOOL as the return value a call records
BoolOf(b) == IF b THEN "TRUE" ELSE "FALSE"

\* variant: a strict mode, in which input left behind the last scanline makes
\* the call fail before the copy
RleComplete_Strict ==
  /\ pc = "rle"
  /\ rle.pbDest >= TileBytes
  /\ \E copyOk \in BOOLEAN :
       LET strict == rle.pbSrc < Len(call.src)
       IN /\ pDstData' = IF strict \/ ~ copyOk THEN pDstData
                         ELSE freerdp_image_copy_flip(ctx.TempBuffer.bytes, RowDelta,
                                                      call.height)
          /\ call' = [call EXCEPT !.ret = IF strict THEN "FALSE" ELSE BoolOf(copyOk),
                                  !.copy = IF strict THEN "none" ELSE BoolOf(copyOk)]
  /\ pc' = "idle"
  /\ UNCHANGED <<ctx, rle, cDstData, pDstSize, tile>>

\* the last scanline is complete: the decoder returns TRUE and
\* interleaved_decompress returns what freerdp_image_copy returns (lines
\* 416 - 418); copyOk is that value.  A copy that succeeds puts the tile on
\* the destination, a copy that fails leaves the destination as it was.
RleComplete ==
  /\ pc = "rle"
  /\ rle.pbDest >= TileBytes
  /\ \E copyOk \in BOOLEAN :
       /\ pDstData' = IF copyOk
                      THEN freerdp_image_copy_flip(ctx.TempBuffer.bytes, RowDelta,
                                                   call.height)
                      ELSE pDstData
       /\ call' = [call EXCEPT !.ret = BoolOf(copyOk), !.copy = BoolOf(copyOk)]
  /\ pc' = "idle"
  /\ UNCHANGED <<ctx, rle, cDstData, pDstSize, tile>>

(***************************************************************************)
(* The collaborators of interleaved_compress.  Neither is part of          *)
(* interleaved.c.  freerdp_image_copy converts the source tile to the      *)
(* format the compressor reads (BGRX32 at 24 bpp, the source format        *)
(* otherwise).  freerdp_bitmap_compress chooses the orders; the one        *)
(* modelled here emits, bottom row first, a background run for a row that  *)
(* repeats the row emitted before it (or is all BLACK when it is the       *)
(* first), and a colour image otherwise.  Its result tells what the call    *)
(* did: status the return value, out the bytes written to the stream s     *)
(* from its start, length the position of s at return, bts the position    *)
(* the scratch stream is left at.                                          *)
(***************************************************************************)
RECURSIVE ToBGRX32(_)
ToBGRX32(bytes) ==
  IF Len(bytes) < 3 THEN <<>>
  ELSE <<bytes[1], bytes[2], bytes[3], 255>> \o ToBGRX32(SubSeq(bytes, 4, Len(bytes)))

freerdp_image_copy_convert(pSrcData, bpp) ==
  IF bpp = 24 THEN ToBGRX32(pSrcData) ELSE pSrcData

\* bytes a pixel occupies in the scratch buffer of the compressor
CompressPixelSize(bpp) == IF bpp = 24 THEN 4 ELSE BytesPerPixel(bpp)

\* row r (0 = top) of the tile in the scratch buffer, as the bytes of its
\* pixels at the wire depth
RECURSIVE WireRow(_, _, _, _)
WireRow(temp, p, n, bpp) ==
  IF n = 0 THEN <<>>
  ELSE SubSeq(temp, p + 1, p + BytesPerPixel(bpp))
       \o WireRow(temp, p + CompressPixelSize(bpp), n - 1, bpp)

OrderHeader(code, len) ==
  IF len < 32 THEN <<code * 32 + len>> ELSE <<code * 32, len - 32>>

RECURSIVE EmitRows(_, _, _, _, _)
EmitRows(temp, width, r, prev, bpp) ==
  IF r < 0 THEN <<>>
  ELSE LET row == WireRow(temp, r * width * CompressPixelSize(bpp), width, bpp)
           order == IF row = prev
                    THEN OrderHeader(REGULAR_BG_RUN, width)
                    ELSE OrderHeader(REGULAR_COLOR_IMAGE, width) \o row
       IN order \o EmitRows(temp, width, r - 1, row, bpp)

\* the rows start_line .. 0 compressed: the number of lines sent, or status
\* -1 with nothing written when the stream would exceed byte_limit
freerdp_bitmap_compress(srcData, width, height, bpp, byte_limit, start_line) ==
  LET out == EmitRows(srcData, width, start_line,
                      [k \in 1 .. width * BytesPerPixel(bpp) |-> 0], bpp)
  IN IF Len(out) > byte_limit
     THEN [status |-> -1, out |-> <<>>, length |-> 0, bts |-> 0]
     ELSE [status |-> start_line + 1, out |-> out, length |-> Len(out), bts |-> 0]

\* variant: the test of the width against the multiples of 4 left out
UnsupportedGeometry_NoMultipleOf4(nWidth, nHeight) ==
  \/ (nWidth = 0) \/ (nHeight = 0)
  \/ (nWidth > 64) \/ (nHeight > 64)

\* the geometry checks of interleaved_compress (lines 434 - 450)
UnsupportedGeometry(nWidth, nHeight) ==
  \/ (nWidth = 0) \/ (nHeight = 0)
  \/ nWidth % 4 # 0
  \/ (nWidth > 64) \/ (nHeight > 64)

\* the depth switch of interleaved_compress (lines 452 - 468); "none" is the
\* default branch, which returns FALSE
CompressDstFormat(bpp) ==
  IF bpp = 24 THEN "PIXEL_FORMAT_BGRX32"
  ELSE IF bpp = 16 THEN "PIXEL_FORMAT_RGB16"
  ELSE IF bpp = 15 THEN "PIXEL_FORMAT_RGB15"
  ELSE "none"

\* the byte limit interleaved_compress hands to the compressor (line 428)
maxSize == 64 * 64 * 4

\* the scratch buffer after the freerdp_image_copy of interleaved_compress
\* (lines 470 - 472)
CompressScratch(pSrcData, bpp) ==
  StoreBytes(ctx.TempBuffer.bytes, 0, freerdp_image_copy_convert(pSrcData, bpp))

\* what freerdp_bitmap_compress may return to interleaved_compress (lines
\* 481 - 485): the compressed tile, or a failure after the first byte of it
\* with a row pending in the scratch stream; for a call that ends before line
\* 481 the compressor is not called
CompressorOutcomes(pSrcData, nWidth, nHeight, bpp, nullArg) ==
  IF \/ nullArg # "none"
     \/ UnsupportedGeometry(nWidth, nHeight)
     \/ CompressDstFormat(bpp) = "none"
  THEN {[status |-> 0, out |-> <<>>, length |-> 0, bts |-> 0]}
  ELSE LET done == freerdp_bitmap_compress(CompressScratch(pSrcData, bpp), nWidth,
                                           nHeight, bpp, maxSize, nHeight - 1)
       IN {done,
           [status |-> -1, out |-> SubSeq(done.out, 1, 1), length |-> 1,
            bts |-> nWidth * CompressPixelSize(bpp)]}

(***************************************************************************)
(* interleaved_compress (lines 421 - 491), the whole call.  pSrcData is    *)
(* the source tile in the format of bpp, DstSize the value of *pDstSize at *)
(* entry, copyOk the value of freerdp_image_copy, streamOk the outcome of  *)
(* Stream_New, compressed what freerdp_bitmap_compress did.  A copy that   *)
(* fails leaves the scratch buffer as it was, and a copy to a null scratch *)
(* buffer fails.                                                           *)
(***************************************************************************)
interleaved_compress(pSrcData, nWidth, nHeight, bpp, nullArg, DstSize, copyOk, streamOk, compressed) ==
  LET c == [op |-> "compress", src |-> pSrcData, width |-> nWidth, height |-> nHeight,
            bpp |-> bpp, nullArg |-> nullArg, DstSize |-> DstSize, oom |-> FALSE,
            copy |-> "none", encoded |-> "none", ret |-> "FALSE"]
      temp == CompressScratch(pSrcData, bpp)
  IN /\ pc = "idle"
     /\ tile' = pSrcData
     /\ UNCHANGED <<pc, rle, pDstData>>
     /\ IF \/ nullArg # "none"
           \/ UnsupportedGeometry(nWidth, nHeight)
           \/ CompressDstFormat(bpp) = "none"
        THEN /\ call' = c
             /\ pDstSize' = DstSize
             /\ UNCHANGED <<ctx, cDstData>>
        ELSE IF ~ copyOk \/ ctx.TempBuffer.null
        THEN /\ call' = [c EXCEPT !.copy = "FALSE"]
             /\ pDstSize' = DstSize
             /\ UNCHANGED <<ctx, cDstData>>
        ELSE IF ~ streamOk
        THEN /\ call' = [c EXCEPT !.copy = "TRUE", !.oom = TRUE]
             /\ ctx' = [ctx EXCEPT !.TempBuffer.bytes = temp]
             /\ pDstSize' = DstSize
             /\ UNCHANGED cDstData
        ELSE /\ ctx' = [ctx EXCEPT !.TempBuffer.bytes = temp, !.bts = compressed.bts]
             /\ cDstData' = StoreBytes(cDstData, 0, compressed.out)
             /\ pDstSize' = compressed.length
             /\ call' = [c EXCEPT !.copy = "TRUE",
                                  !.encoded = BoolOf(compressed.status >= 0),
                                  !.ret = BoolOf(compressed.status >= 0)]

(***************************************************************************)
(* The calls the model makes.  A compressed input is a prefix of a         *)
(* concatenation of at most MaxOrders encoded orders at the pixel size of  *)
(* the call, which gives well-formed streams, streams whose orders do not  *)
(* fit the tile, and streams cut inside an order.                          *)
(***************************************************************************)
MaxOrders == 2

\* the bytes of the two colours the inputs use, cut to the pixel size
Colour(i, Bpp) == SubSeq(IF i = 1 THEN <<119, 18, 86>> ELSE <<15, 52, 154>>, 1, Bpp)

Orders(Bpp) ==
  { <<4>>,                                     \* REGULAR_BG_RUN, 4 pixels
    <<2>>,                                     \* REGULAR_BG_RUN, 2 pixels
    <<34>>,                                    \* REGULAR_FG_RUN, 2 pixels
    <<36>>,                                    \* REGULAR_FG_RUN, 4 pixels
    <<32, 0>>,                                 \* REGULAR_FG_RUN, 32 pixels
    <<194>> \o Colour(1, Bpp),                 \* LITE_SET_FG_FG_RUN, 2 pixels
    <<202>> \o Colour(1, Bpp),                 \* LITE_SET_FG_FG_RUN, 10 pixels
    <<225>> \o Colour(1, Bpp) \o Colour(2, Bpp),   \* LITE_DITHERED_RUN, 1 pair
    <<98>> \o Colour(2, Bpp),                  \* REGULAR_COLOR_RUN, 2 pixels
    <<130>> \o Colour(1, Bpp) \o Colour(2, Bpp),   \* REGULAR_COLOR_IMAGE, 2 pixels
    <<64, 3, 5>>,                              \* REGULAR_FGBG_IMAGE, 4 pixels
    <<208, 1>> \o Colour(2, Bpp) \o <<2>>,     \* LITE_SET_FG_FGBG_IMAGE, 2 pixels
    <<240, 2, 0>>,                             \* MEGA_MEGA_BG_RUN, 2 pixels
    <<249>>,                                   \* SPECIAL_FGBG_1
    <<253>>,                                   \* SPECIAL_WHITE
    <<254>> }                                  \* SPECIAL_BLACK

RECURSIVE Streams(_, _)
Streams(Bpp, n) ==
  IF n = 0 THEN {<<>>}
  ELSE LET shorter == Streams(Bpp, n - 1)
       IN shorter \cup {s \o o : s \in shorter, o \in Orders(Bpp)}

Prefixes(S) == UNION {{SubSeq(s, 1, k) : k \in 0 .. Len(s)} : s \in S}

Sources(Bpp) == Prefixes(Streams(Bpp, MaxOrders))

\* inputs with the lead byte 0xA0, which is no order: alone, behind a
\* REGULAR_BG_RUN of 2 and of 4 pixels, and in front of one
NoOrderSources == { <<160>>, <<2, 160>>, <<4, 160>>, <<160, 2>> }

\* <<nSrcWidth, nSrcHeight, bpp>> of the interleaved_decompress calls
DecompressCalls ==
  { <<2, 2, 8>>, <<4, 1, 8>>, <<4, 2, 8>>, <<8, 1, 8>>,
    <<2, 2, 16>>, <<4, 1, 16>>, <<4, 2, 15>>,
    <<2, 2, 24>>, <<4, 1, 24>>,
    <<12, 2, 8>>, <<4, 4128, 8>>,
    <<0, 1, 8>>, <<4, 0, 16>>, <<4, 1, 32>>, <<4, 1, 0>> }

NullArgs == {"none", "interleaved", "pSrcData", "pDstData"}

\* the source given together with a null argument
NullCallSources == {<<>>, <<4>>}

\* <<nWidth, nHeight, bpp>> of the interleaved_compress calls
CompressCalls ==
  { <<4, 1, 8>>, <<4, 1, 15>>, <<4, 1, 16>>, <<4, 1, 24>>, <<4, 1, 32>>,
    <<4, 2, 8>>, <<4, 2, 16>>, <<4, 2, 24>>,
    <<0, 1, 16>>, <<4, 0, 16>>, <<2, 1, 16>>, <<6, 1, 24>>,
    <<68, 1, 16>>, <<4, 65, 16>> }

\* tiles of MaxTilePixels pixels or fewer take every arrangement of BLACK and
\* one colour, larger ones are BLACK
MaxTilePixels == 8

TilePixel(i, bpp) ==
  LET n == IF BytesPerPixel(bpp) = 0 THEN 1 ELSE BytesPerPixel(bpp)
  IN IF i = 0 THEN [k \in 1 .. n |-> 0] ELSE Colour(1, n)

RECURSIVE TileBytesOf(_, _)
TileBytesOf(pixels, bpp) ==
  IF pixels = <<>> THEN <<>>
  ELSE TilePixel(Head(pixels), bpp) \o TileBytesOf(Tail(pixels), bpp)

Tiles(width, height, bpp) ==
  IF width * height <= MaxTilePixels
  THEN {TileBytesOf(t, bpp) : t \in [1 .. width * height -> {0, 1}]}
  ELSE {[k \in 1 .. width * height * Len(TilePixel(0, bpp)) |-> 0]}

\* inputs of the 8 bpp 4x1 tile taken from the scenarios of the specification,
\* and the same colour bytes behind the lead byte of a REGULAR_COLOR_IMAGE of 4
ScenarioSources ==
  { <<4, 170, 187, 204, 221>>, <<132, 170, 187, 204, 221>> }

\* inputs with a REGULAR_FGBG_IMAGE of 10 pixels (two mask bytes, the second
\* covering 2 pixels) for the 8 bpp 12x2 tile: on the first scanline, and on
\* the second scanline below a run of the foreground and below a colour run
FgBgSources8 ==
  { <<64, 9, 165, 2, 2, 12>>,
    <<202, 119, 34, 64, 9, 165, 2, 34>>,
    <<108, 15, 64, 9, 165, 2, 2>> }

\* a REGULAR_FGBG_IMAGE of 2 pixels below two coloured pixels, 16 bpp 2x2 tile
FgBgSources16 ==
  { <<130, 119, 18, 15, 52, 64, 1, 2>> }

\* calls that fail on their arguments, made in any state between calls:
\* <<width, height, bpp, null argument>>
RepeatedDecompressCalls ==
  { <<4, 1, 32, "none">>, <<4, 1, 8, "pDstData">> }

RepeatedCompressCalls ==
  { <<6, 1, 24, "none">>, <<4, 65, 16, "none">> }

\* variant: the reset empties the scratch buffer
bitmap_interleaved_context_reset_ClearsScratch(interleavedNull) ==
  /\ pc = "idle"
  /\ call' = [NoCall EXCEPT !.op = "reset",
                            !.nullArg = IF interleavedNull THEN "interleaved" ELSE "none",
                            !.ret = IF interleavedNull THEN "FALSE" ELSE "TRUE"]
  /\ ctx' = IF interleavedNull THEN ctx ELSE [ctx EXCEPT !.TempBuffer.bytes = <<>>]
  /\ UNCHANGED <<pc, rle, pDstData, cDstData, pDstSize, tile>>

\* bitmap_interleaved_context_reset (lines 493 - 499): FALSE for a null
\* context, TRUE otherwise; no field of the context is written
bitmap_interleaved_context_reset(interleavedNull) ==
  /\ pc = "idle"
  /\ call' = [NoCall EXCEPT !.op = "reset",
                            !.nullArg = IF interleavedNull THEN "interleaved" ELSE "none",
                            !.ret = IF interleavedNull THEN "FALSE" ELSE "TRUE"]
  /\ UNCHANGED <<ctx, pc, rle, pDstData, cDstData, pDstSize, tile>>

\* no decompress or compress call has left a trace: the context and the
\* buffers are as after construction, whatever number of resets was made
FirstCalls ==
  \/ call.op = "none"
  \/ /\ call.op = "reset"
     /\ ctx = bitmap_interleaved_context_new
     /\ rle = DecoderInit(1)
     /\ pDstData = <<>> /\ cDstData = <<>> /\ tile = <<>>

\* a call on the fresh context takes any of the inputs
Decompress ==
  \/ /\ FirstCalls
     /\ \E g \in DecompressCalls, nullArg \in NullArgs, reallocOk \in BOOLEAN :
          \E src \in IF nullArg = "none"
                     THEN Sources(IF BytesPerPixel(g[3]) = 0 THEN 1
                                  ELSE BytesPerPixel(g[3]))
                            \cup NoOrderSources
                            \cup (IF g = <<4, 1, 8>> THEN ScenarioSources ELSE {})
                            \cup (IF g = <<12, 2, 8>> THEN FgBgSources8 ELSE {})
                            \cup (IF g = <<2, 2, 16>> THEN FgBgSources16 ELSE {})
                     ELSE NullCallSources :
            DecompressEnter(src, g[1], g[2], g[3], nullArg, reallocOk)
  \/ /\ call.op # "none"
     /\ \E g \in RepeatedDecompressCalls :
          DecompressEnter(<<4>>, g[1], g[2], g[3], g[4], TRUE)

Compress ==
  \/ /\ FirstCalls
     /\ \E g \in CompressCalls, nullArg \in NullArgs, copyOk \in BOOLEAN,
           streamOk \in BOOLEAN :
          \E t \in Tiles(g[1], g[2], g[3]) :
            \E compressed \in CompressorOutcomes(t, g[1], g[2], g[3], nullArg) :
              interleaved_compress(t, g[1], g[2], g[3], nullArg, DefaultTempSize,
                                   copyOk, streamOk, compressed)
  \/ /\ call.op # "none"
     /\ \E g \in RepeatedCompressCalls :
          LET t == [k \in 1 .. g[1] * g[2] * BytesPerPixel(g[3]) |-> 0]
          IN \E compressed \in CompressorOutcomes(t, g[1], g[2], g[3], g[4]) :
               interleaved_compress(t, g[1], g[2], g[3], g[4], DefaultTempSize,
                                    TRUE, TRUE, compressed)

\* the output of a successful interleaved_compress call is decompressed with
\* the geometry and depth of that call
DecompressCompressed ==
  /\ call.op = "compress"
  /\ call.ret = "TRUE"
  /\ DecompressEnter(SubSeq(cDstData, 1, pDstSize), call.width, call.height,
                     call.bpp, "none", TRUE)

\* a reset between two calls, on the context or on a null pointer
Reset == \E interleavedNull \in BOOLEAN : bitmap_interleaved_context_reset(interleavedNull)

\* the context after bitmap_interleaved_context_free: the scratch buffer, the
\* scratch stream and the structure are released, no field is left to read
FreedContext ==
  [Compressor |-> FALSE,
   TempSize |-> 0,
   TempBuffer |-> [null |-> TRUE, cap |-> 0, bytes |-> <<>>],
   bts |-> 0]

\* bitmap_interleaved_context_free (lines 532 - 540): nothing for a null
\* context; otherwise TempBuffer, bts and the context are freed
bitmap_interleaved_context_free(interleavedNull) ==
  /\ pc = "idle"
  /\ IF interleavedNull
     THEN UNCHANGED vars
     ELSE /\ ctx' = FreedContext
          /\ pc' = "freed"
          /\ call' = [NoCall EXCEPT !.op = "free"]
          /\ UNCHANGED <<rle, pDstData, cDstData, pDstSize, tile>>

\* the end of the life of the context, between two calls
Free == \E interleavedNull \in BOOLEAN : bitmap_interleaved_context_free(interleavedNull)

Next ==
  \/ Decompress
  \/ DecompressCompressed
  \/ RleOrder
  \/ RleTruncated
  \/ RleComplete
  \/ Compress
  \/ Reset
  \/ Free

Spec == Init /\ [][Next]_vars

(***************************************************************************)
(* The size computation of interleaved_decompress (lines 350 - 386) on     *)
(* tiles up to the 32 bit range of nSrcWidth and nSrcHeight: one call on   *)
(* the fresh context, taken up to the point where the RLE decoder is       *)
(* invoked.  The first set has every product below 2^31; the calls of the  *)
(* second set have a scanline or a BufferSize of 2^32 or more.             *)
(***************************************************************************)
SizingWidths == {0, 1, 4, 64, 65, 128, 4096, 5462, 16384}
SizingHeights == {0, 1, 2, 64, 129, 4096, 16384}

WrappingCalls ==
  { <<1431655766, 1, 24>>, <<1431655766, 8192, 24>>,
    <<65536, 65536, 8>>, <<65537, 65537, 8>>,
    <<32768, 65536, 16>>, <<65536, 65536, 15>> }

SizingCalls ==
  {<<w, h, bpp>> : w \in SizingWidths, h \in SizingHeights, bpp \in {8, 15, 16, 24}}
    \cup WrappingCalls

DecompressSizing ==
  /\ FirstCalls
  /\ \E g \in SizingCalls, reallocOk \in BOOLEAN :
       DecompressEnter(<<4>>, g[1], g[2], g[3], "none", reallocOk)

NextSizing == DecompressSizing

SpecSizing == Init /\ [][NextSizing]_vars

(***************************************************************************)
(* Properties.                                                             *)
(***************************************************************************)

\* the decoder of the last interleaved_decompress call was entered
DecoderRan ==
  /\ call.op = "decompress"
  /\ call.nullArg = "none"
  /\ call.bpp \in {8, 15, 16, 24}
  /\ ~ call.oom

\* freerdp_image_copy, the collaborator that puts the tile on the surface of
\* the caller, returned FALSE to the last call
CopyFailed == call.copy = "FALSE"

\* width * height * bytes_per_pixel of the last call
ExpectedTileBytes ==
  call.width * call.height * (IF call.bpp = 24 THEN 3 ELSE IF call.bpp = 8 THEN 1 ELSE 2)

\* C1 (bounds safety): a decompress call that is over has returned TRUE or
\* FALSE, a failed check stops the decoder at once, and at no step is an input
\* byte at an offset >= len(s) read or a destination byte at an offset
\* >= width * height * bytes_per_pixel written; the input cursor itself never
\* passes the end of the input.
C1_BoundsSafety ==
  DecoderRan =>
    /\ rle.readHigh <= Len(call.src)
    /\ rle.writeHigh <= ExpectedTileBytes
    /\ (pc = "idle" => call.ret \in {"TRUE", "FALSE"})
    /\ (pc = "rle" => call.ret = "pending" /\ rle.cause = "None")
    /\ rle.pbSrc <= Len(call.src)

\* a decode that read its input up to the last byte, extension bytes included,
\* and filled the tile up to its last byte
C1_Witness ==
  /\ DecoderRan
  /\ call.ret = "TRUE"
  /\ rle.code = MEGA_MEGA_BG_RUN
  /\ rle.readHigh = Len(call.src)
  /\ rle.writeHigh = ExpectedTileBytes
  /\ ExpectedTileBytes > 0

\* C3: whenever decompress returns success, exactly width * height *
\* bytes_per_pixel destination bytes have been written; a call on an empty
\* input or on an input that ends before the last scanline is full does not
\* return success.
C3_SuccessWritesWholeTile ==
  /\ (DecoderRan /\ call.ret = "TRUE") =>
       /\ rle.pbDest = ExpectedTileBytes
       /\ rle.writeHigh = ExpectedTileBytes
       /\ Len(pDstData) = ExpectedTileBytes
  /\ (DecoderRan /\ pc = "idle" /\ rle.pbSrc >= Len(call.src)
        /\ rle.pbDest < ExpectedTileBytes) => call.ret = "FALSE"

\* a successful decode of a tile of two scanlines at 15 bpp
C3_Witness ==
  /\ DecoderRan
  /\ call.ret = "TRUE"
  /\ call.bpp = 15
  /\ call.height = 2
  /\ Len(pDstData) = 16

\* the decoder stands at an order: the tile is not complete and input is left
AtOrder ==
  /\ pc = "rle"
  /\ rle.pbDest < ExpectedTileBytes
  /\ rle.pbSrc < Len(call.src)

\* the pixel size of the last call and the end of the scanline that holds the
\* output cursor, from the arguments of the call
PixelSize == IF call.bpp = 24 THEN 3 ELSE IF call.bpp = 8 THEN 1 ELSE 2
ScanlineEnd == ((rle.pbDest \div (call.width * PixelSize)) + 1) * call.width * PixelSize

\* the order at the cursor has its header and its data inside the input and
\* its pixel count carries the output cursor past the end of the scanline
OrderOverflowsScanline ==
  /\ AtOrder
  /\ LET h == ReadOrderHeader(call.src, rle.pbSrc)
     IN /\ h.code \in LengthCodes \cup SpecialCodes
        /\ h.advance > 0
        /\ rle.pbSrc + h.advance + PixelsIn(h.code, h.runLength) * PixelSize
             + MasksIn(h.code, h.runLength) <= Len(call.src)
        /\ rle.pbDest + PixelsOut(h.code, h.runLength) * PixelSize > ScanlineEnd

\* C4: orders do not span scanlines.  An order whose pixel count would carry
\* the output cursor past the end of the current scanline makes decompress
\* return failure (Overflow) and writes nothing; every order that was executed
\* began and ended in one scanline; the 8 bpp 8x1 input [0xCA, 0x77] fails.
C4_OrdersDoNotSpanScanlines ==
  /\ [][OrderOverflowsScanline =>
          /\ pc' = "idle"
          /\ call'.ret = "FALSE"
          /\ rle'.cause = "Overflow"
          /\ rle'.pbDest = rle.pbDest
          /\ ctx' = ctx]_vars
  /\ [][(AtOrder /\ pc' = "rle") =>
          \/ rle'.pbDest = rle.pbDest
          \/ (rle'.pbDest - 1) \div (call.width * PixelSize)
               = rle.pbDest \div (call.width * PixelSize)]_vars
  /\ [](( /\ DecoderRan /\ pc = "idle"
          /\ call.src = <<202, 119>>
          /\ call.width = 8 /\ call.height = 1 /\ call.bpp = 8 )
        => (call.ret = "FALSE" /\ rle.cause = "Overflow"))

\* the call on [0xCA, 0x77] for the 8 bpp 8x1 tile has failed on the run of 10
C4_Witness ==
  /\ DecoderRan
  /\ pc = "idle"
  /\ call.src = <<202, 119>>
  /\ call.width = 8 /\ call.height = 1 /\ call.bpp = 8
  /\ rle.code = LITE_SET_FG_FG_RUN
  /\ rle.runLength = 10
  /\ rle.cause = "Overflow"

\* extension length bytes the order with lead byte b needs after the lead byte
ExtensionBytes(b) ==
  IF b \in {240, 241, 242, 243, 244, 246, 247, 248} THEN 2
  ELSE IF b < 160 /\ b % 32 = 0 THEN 1
  ELSE IF b >= 192 /\ b < 240 /\ b % 16 = 0 THEN 1
  ELSE 0

\* the order at the cursor needs extension bytes and the last of them lies at
\* or beyond the end of the input
OrderTruncated ==
  /\ AtOrder
  /\ ExtensionBytes(call.src[rle.pbSrc + 1]) > 0
  /\ rle.pbSrc + ExtensionBytes(call.src[rle.pbSrc + 1]) >= Len(call.src)

\* C5 (truncation): when an order needs extension length bytes and any of
\* them lies at or beyond the end of the input, the call returns failure
\* (Truncated) without having read a byte at or beyond the end of the input
\* and without writing; the one-byte input [0x20] fails.
C5_TruncatedExtensionFails ==
  /\ [][OrderTruncated =>
          /\ pc' = "idle"
          /\ call'.ret = "FALSE"
          /\ rle'.cause = "Truncated"
          /\ rle'.readHigh <= Len(call.src)
          /\ ctx' = ctx]_vars
  /\ []((DecoderRan /\ pc = "idle" /\ call.src = <<32>> /\ ExpectedTileBytes > 0)
        => (call.ret = "FALSE" /\ rle.cause = "Truncated"))

\* a MEGA order whose second length byte is the first byte beyond the input
C5_Witness ==
  /\ DecoderRan
  /\ pc = "idle"
  /\ call.ret = "FALSE"
  /\ rle.cause = "Truncated"
  /\ rle.code = MEGA_MEGA_BG_RUN
  /\ rle.pbSrc + 2 = Len(call.src)
  /\ rle.pbDest > 0


\* the value of the n bytes at offset p of buf, least significant byte first
RECURSIVE LittleEndian(_, _, _)
LittleEndian(buf, p, n) ==
  IF n = 0 THEN 0 ELSE buf[p + 1] + 256 * LittleEndian(buf, p + 1, n - 1)

\* the pixel size of a depth and the all-ones pixel of that size
PixelSizeOf(bpp) == IF bpp = 24 THEN 3 ELSE IF bpp = 8 THEN 1 ELSE 2
AllOnes(bpp) == 256 ^ PixelSizeOf(bpp) - 1

\* the step executes the order at the cursor, and the order is of family F
Executes(F) ==
  /\ AtOrder
  /\ pc' = "rle"
  /\ rle'.code \in F

\* after the step, each of the pixels the order wrote is x on the first
\* scanline and the pixel directly above it XOR x on a later scanline
RunPixelsAre(x) ==
  LET out == ctx'.TempBuffer.bytes
      row == call.width * PixelSize
  IN \A k \in 0 .. (((rle'.pbDest - rle.pbDest) \div PixelSize) - 1) :
       LET at == rle.pbDest + k * PixelSize
       IN LittleEndian(out, at, PixelSize)
            = IF at < row THEN x
              ELSE BitXor(LittleEndian(out, at - row, PixelSize), x)

\* C6 (foreground persistence): the foreground of a tile starts as WHITE (all
\* ones at the pixel size); a step of the decoder changes it only when it
\* executes a SET_FG_RUN or SET_FG_FGBG_IMAGE order, which sets it to the
\* colour operand of the order; an FG_RUN writes with the foreground current
\* before it, whatever number of orders or scanlines lies between.  The 8 bpp
\* 2x2 input [0xC2, 0x77, 0x22] gives a second scanline of 0x77 XOR 0x77 and,
\* unless the copy to the surface fails, success.
C6_ForegroundPersistence ==
  /\ [][(pc = "idle" /\ pc' = "rle") => rle'.fgPel = AllOnes(call'.bpp)]_vars
  /\ [][(pc = "rle" /\ ~ Executes(SetFgRunCodes \cup SetFgFgBgImageCodes))
          => rle'.fgPel = rle.fgPel]_vars
  /\ [][Executes(SetFgRunCodes) =>
          rle'.fgPel = LittleEndian(call.src, rle'.pbSrc - PixelSize, PixelSize)]_vars
  /\ [][Executes(SetFgFgBgImageCodes) =>
          rle'.fgPel = LittleEndian(call.src,
                                    rle'.pbSrc - MaskBytes(rle'.runLength) - PixelSize,
                                    PixelSize)]_vars
  /\ [][Executes(FgRunCodes) =>
          /\ rle'.pbDest = rle.pbDest + rle'.runLength * PixelSize
          /\ RunPixelsAre(rle.fgPel)]_vars
  /\ []((DecoderRan /\ pc = "idle" /\ call.src = <<194, 119, 34>>
         /\ call.width = 2 /\ call.height = 2 /\ call.bpp = 8)
        => /\ call.ret = (IF CopyFailed THEN "FALSE" ELSE "TRUE")
           /\ ctx.TempBuffer.bytes = <<119, 119, 0, 0>>)

\* an FG_RUN on the second scanline has used the colour the SET_FG_RUN of the
\* first scanline set
C6_Witness ==
  /\ DecoderRan
  /\ pc = "idle"
  /\ call.ret = "TRUE"
  /\ call.src = <<194, 119, 34>>
  /\ call.width = 2 /\ call.height = 2 /\ call.bpp = 8
  /\ rle.code = REGULAR_FG_RUN
  /\ rle.fgPel = 119
  /\ ctx.TempBuffer.bytes = <<119, 119, 0, 0>>

\* C7 (run semantics over scanlines): on the first scanline every pixel of a
\* BG_RUN is BLACK and every pixel of an FG_RUN is the current foreground; on a
\* later scanline every pixel of a BG_RUN is the pixel directly above it and
\* every pixel of an FG_RUN is that pixel XOR the current foreground.  A single
\* BG_RUN of length width on a one-row tile gives an all BLACK tile at every
\* depth, and two BG_RUNs of length 4 on the 8 bpp 4x2 tile give 8 bytes 0x00
\* (on the surface of the caller when the copy to it does not fail).
C7_RunSemantics ==
  /\ [][Executes(BgRunCodes) =>
          /\ rle'.pbDest = rle.pbDest + rle'.runLength * PixelSize
          /\ RunPixelsAre(BLACK_PIXEL)]_vars
  /\ [][Executes(FgRunCodes) => RunPixelsAre(rle.fgPel)]_vars
  /\ []((DecoderRan /\ pc = "idle" /\ call.src = <<4>>
         /\ call.width = 4 /\ call.height = 1 /\ ~ CopyFailed)
        => /\ call.ret = "TRUE"
           /\ pDstData = [k \in 1 .. 4 * PixelSize |-> 0])
  /\ []((DecoderRan /\ pc = "idle" /\ call.src = <<4, 4>>
         /\ call.width = 4 /\ call.height = 2 /\ call.bpp = 8 /\ ~ CopyFailed)
        => /\ call.ret = "TRUE"
           /\ pDstData = <<0, 0, 0, 0, 0, 0, 0, 0>>)

\* a BG_RUN on the second scanline of a 16 bpp tile has copied the two
\* coloured pixels of the first scanline
C7_Witness ==
  /\ DecoderRan
  /\ pc = "idle"
  /\ call.ret = "TRUE"
  /\ call.width = 2 /\ call.height = 2 /\ call.bpp = 16
  /\ call.src = <<130, 119, 18, 15, 52, 2>>
  /\ rle.code = REGULAR_BG_RUN
  /\ ctx.TempBuffer.bytes = <<119, 18, 15, 52, 119, 18, 15, 52>>


\* the geometry the encoder does not take: a width or height of 0, a width
\* that is not a multiple of 4, a width or height above 64
BadGeometry(w, h) ==
  (w = 0) \/ (h = 0) \/ (w % 4 # 0) \/ (w > 64) \/ (h > 64)

\* C8: an interleaved_compress call with a width that is not a multiple of 4,
\* a width or height above 64, or a width or height of 0 returns failure,
\* writes nothing to the output buffer, and leaves the produced size of the
\* caller (its value at entry) and the context as they were.
C8_BadGeometryFails ==
  [][(call'.op = "compress" /\ BadGeometry(call'.width, call'.height))
       => /\ call'.ret = "FALSE"
          /\ cDstData' = cDstData
          /\ pDstSize' = call'.DstSize
          /\ ctx' = ctx
          /\ pc' = "idle"]_vars

\* a 6 pixel wide tile was refused after an earlier call had produced output
C8_Witness ==
  /\ call.op = "compress"
  /\ call.width = 6 /\ call.height = 1 /\ call.bpp = 24
  /\ call.nullArg = "none"
  /\ call.ret = "FALSE"
  /\ cDstData # <<>>
  /\ pDstSize = call.DstSize

\* the last call was an interleaved_compress call with all three pointers,
\* a geometry the encoder takes, and an output stream that was allocated, and
\* neither collaborator (freerdp_image_copy, freerdp_bitmap_compress) failed
CompressCallOnValidTile ==
  /\ call.op = "compress"
  /\ call.nullArg = "none"
  /\ ~ call.oom
  /\ call.copy # "FALSE"
  /\ call.encoded # "FALSE"
  /\ ~ BadGeometry(call.width, call.height)

\* the call went on to the compression: it returned TRUE or wrote the
\* produced size
ProceededToCompression ==
  (call.ret = "TRUE") \/ (pDstSize # call.DstSize)

\* C9: the compressor operates at exactly the depths 8, 15, 16 and 24: on a
\* tile of valid geometry interleaved_compress proceeds to compression when
\* bpp is one of them and returns failure for every other bpp.
C9_CompressorDepths ==
  CompressCallOnValidTile =>
    IF call.bpp \in {8, 15, 16, 24}
    THEN ProceededToCompression
    ELSE call.ret = "FALSE" /\ ~ ProceededToCompression

\* the part of C9 the code meets: compression at 15, 16 and 24, failure at
\* every other depth
C9_DepthsOfTheCode ==
  CompressCallOnValidTile =>
    IF call.bpp \in {15, 16, 24}
    THEN ProceededToCompression
    ELSE call.ret = "FALSE" /\ ~ ProceededToCompression

\* C10: interleaved_decompress returns failure for every bpp outside
\* {8, 15, 16, 24} and for a null context, source or destination; such a call
\* does not touch the destination and leaves the scratch buffer and the
\* recorded scratch size of the context unchanged.  15 and 16 bpp are decoded
\* by the same decoder, the one with 2-byte pixels.
C10_DecompressArgumentFailures ==
  /\ [][(call'.op = "decompress"
         /\ (call'.bpp \notin {8, 15, 16, 24} \/ call'.nullArg # "none"))
          => /\ call'.ret = "FALSE"
             /\ pc' = "idle"
             /\ pDstData' = pDstData
             /\ ctx'.TempBuffer = ctx.TempBuffer
             /\ ctx'.TempSize = ctx.TempSize]_vars
  /\ [][(pc = "idle" /\ pc' = "rle" /\ call'.bpp \in {15, 16})
          => rle'.fgPel = 65535]_vars
  /\ [][(AtOrder /\ call.bpp \in {15, 16}) =>
          \E refuse \in BOOLEAN :
            LET r == ExecOrder(call.src, ctx.TempBuffer.bytes, rle, 2, 2 * call.width,
                               refuse)
            IN /\ ctx'.TempBuffer.bytes = r.buf
               /\ rle' = r.d]_vars
  /\ []((DecoderRan /\ pc = "idle" /\ call.ret = "TRUE" /\ call.bpp \in {15, 16})
        => Len(pDstData) = 2 * call.width * call.height)

\* a 32 bpp call was refused after an earlier call had filled the destination
C10_Witness ==
  /\ call.op = "decompress"
  /\ call.bpp = 32
  /\ call.nullArg = "none"
  /\ call.ret = "FALSE"
  /\ pc = "idle"
  /\ pDstData # <<>>
  /\ ctx.TempBuffer.bytes # <<>>

\* the last call decompressed the output of a successful interleaved_compress
\* call and is over, the copy to the surface made
DecompressedCompressed ==
  /\ DecoderRan
  /\ pc = "idle"
  /\ tile # <<>>
  /\ ~ CopyFailed

\* C2 (round trip): for a tile of width 4, 8, ..., 64, height 1 .. 64 and
\* bpp 8, 16 or 24, interleaved_compress succeeds, and interleaved_decompress
\* on its output with the same width, height and bpp succeeds and yields the
\* pixels of the tile.
C2_RoundTrip ==
  /\ (CompressCallOnValidTile /\ call.bpp \in {8, 16, 24}) => call.ret = "TRUE"
  /\ DecompressedCompressed => (call.ret = "TRUE" /\ pDstData = tile)

\* the round trip at the depths the encoder takes
C2_RoundTripOfTheCode ==
  /\ (CompressCallOnValidTile /\ call.bpp \in {16, 24}) => call.ret = "TRUE"
  /\ DecompressedCompressed => (call.ret = "TRUE" /\ pDstData = tile)


\* C11 (reset): bitmap_interleaved_context_reset on a non-null context returns
\* TRUE and leaves Compressor, TempSize, TempBuffer and bts, the buffers of the
\* caller and the state between calls as they were, so that a later call finds
\* what it would have found without the reset; on a null context it returns
\* FALSE.  A decode made after resets of the fresh context gives the result
\* of the decode on the fresh context.
C11_ResetLeavesContext ==
  /\ [][(call'.op = "reset" /\ call' # call) =>
          /\ call'.ret = (IF call'.nullArg = "none" THEN "TRUE" ELSE "FALSE")
          /\ ctx'.Compressor = ctx.Compressor
          /\ ctx'.TempSize = ctx.TempSize
          /\ ctx'.TempBuffer = ctx.TempBuffer
          /\ ctx'.bts = ctx.bts
          /\ pc' = pc
          /\ UNCHANGED <<pDstData, cDstData, pDstSize, tile>>]_vars
  /\ [][(call.op = "reset" /\ call.nullArg = "none" /\ pc' = "rle"
         /\ call'.src = <<194, 119, 34>>
         /\ call'.width = 2 /\ call'.height = 2 /\ call'.bpp = 8)
          => (ctx' = bitmap_interleaved_context_new /\ rle' = DecoderInit(1))]_vars
  /\ []((DecoderRan /\ pc = "idle" /\ call.src = <<194, 119, 34>>
         /\ call.width = 2 /\ call.height = 2 /\ call.bpp = 8 /\ ~ CopyFailed)
        => (call.ret = "TRUE" /\ pDstData = <<0, 0, 119, 119>>))

\* a reset made after a decode that had filled the scratch buffer and the
\* destination
C11_Witness ==
  /\ call.op = "reset"
  /\ call.nullArg = "none"
  /\ call.ret = "TRUE"
  /\ ctx.TempBuffer.bytes = <<119, 119, 0, 0>>
  /\ pDstData = <<0, 0, 119, 119>>


\* the decode of src for the 8 bpp 4x1 tile is over and the copy to the
\* surface of the caller has not failed
Decoded4x1x8(src) ==
  /\ DecoderRan
  /\ pc = "idle"
  /\ ~ CopyFailed
  /\ call.src = src
  /\ call.width = 4 /\ call.height = 1 /\ call.bpp = 8

\* C12 as stated (scenario 1): the decode of [0x04, 0xAA, 0xBB, 0xCC, 0xDD]
\* for the 8 bpp 4x1 tile takes the lead byte 0x04 as REGULAR_COLOR_IMAGE of
\* length 4, succeeds, and gives [0xAA, 0xBB, 0xCC, 0xDD].
C12_Scenario1_AsStated ==
  Decoded4x1x8(<<4, 170, 187, 204, 221>>) =>
    /\ call.ret = "TRUE"
    /\ rle.code = REGULAR_COLOR_IMAGE
    /\ rle.runLength = 4
    /\ pDstData = <<170, 187, 204, 221>>

\* C12 (amended): the lead byte 0x04 is REGULAR_BG_RUN of length 4
\* (0x04 >> 5 = 0): the decode of [0x04, 0xAA, 0xBB, 0xCC, 0xDD] for the 8 bpp
\* 4x1 tile succeeds with the output [0, 0, 0, 0], the four bytes behind the
\* lead byte unread.  The lead byte of REGULAR_COLOR_IMAGE of length 4 is
\* 0x84: the decode of [0x84, 0xAA, 0xBB, 0xCC, 0xDD] succeeds and gives
\* [0xAA, 0xBB, 0xCC, 0xDD].
C12_Scenario1 ==
  /\ ExtractCodeId(4) = REGULAR_BG_RUN
  /\ ExtractCodeId(132) = REGULAR_COLOR_IMAGE
  /\ Decoded4x1x8(<<4, 170, 187, 204, 221>>) =>
       /\ call.ret = "TRUE"
       /\ rle.code = REGULAR_BG_RUN
       /\ rle.runLength = 4
       /\ rle.pbSrc = 1
       /\ pDstData = <<0, 0, 0, 0>>
  /\ Decoded4x1x8(<<132, 170, 187, 204, 221>>) =>
       /\ call.ret = "TRUE"
       /\ rle.code = REGULAR_COLOR_IMAGE
       /\ rle.runLength = 4
       /\ rle.pbSrc = 5
       /\ pDstData = <<170, 187, 204, 221>>

\* the colour image of 4 pixels behind the lead byte 0x84 was copied
C12_Witness ==
  /\ Decoded4x1x8(<<132, 170, 187, 204, 221>>)
  /\ call.ret = "TRUE"
  /\ rle.code = REGULAR_COLOR_IMAGE
  /\ pDstData = <<170, 187, 204, 221>>

\* C13 as stated (scenario 3): the decode of [0x24] for the 8 bpp 4x1 tile
\* takes the lead byte 0x24 as REGULAR_BG_RUN of length 4, succeeds, and gives
\* [0x00, 0x00, 0x00, 0x00].
C13_Scenario3_AsStated ==
  Decoded4x1x8(<<36>>) =>
    /\ call.ret = "TRUE"
    /\ rle.code = REGULAR_BG_RUN
    /\ rle.runLength = 4
    /\ pDstData = <<0, 0, 0, 0>>

\* C13 (amended): the lead byte 0x24 is REGULAR_FG_RUN of length 4
\* (0x24 >> 5 = 1): the decode of [0x24] for the 8 bpp 4x1 tile succeeds and
\* gives four pixels of the initial foreground, [0xFF, 0xFF, 0xFF, 0xFF].  The
\* REGULAR_BG_RUN of length 4 is the lead byte 0x04, and [0x04] gives
\* [0x00, 0x00, 0x00, 0x00].
C13_Scenario3 ==
  /\ ExtractCodeId(36) = REGULAR_FG_RUN
  /\ Decoded4x1x8(<<36>>) =>
       /\ call.ret = "TRUE"
       /\ rle.code = REGULAR_FG_RUN
       /\ rle.runLength = 4
       /\ pDstData = <<255, 255, 255, 255>>
  /\ Decoded4x1x8(<<4>>) =>
       /\ call.ret = "TRUE"
       /\ rle.code = REGULAR_BG_RUN
       /\ rle.runLength = 4
       /\ pDstData = <<0, 0, 0, 0>>

\* the run behind the lead byte 0x24 has written the initial foreground
C13_Witness ==
  /\ Decoded4x1x8(<<36>>)
  /\ call.ret = "TRUE"
  /\ rle.code = REGULAR_FG_RUN
  /\ rle.fgPel = 255
  /\ pDstData = <<255, 255, 255, 255>>


\* the order codes interleaved.c defines (lines 69 - 88), by value
DefinedCodes ==
  {0, 1, 2, 3, 4, 12, 13, 14, 240, 241, 242, 243, 244, 246, 247, 248,
   249, 250, 253, 254}

\* the classes of a lead byte, by arithmetic: (b & 0xC0) != 0xC0 is b < 192,
\* (b & 0xF0) == 0xF0 is b >= 240
RegularClass(b) == b < 192
MegaSpecialClass(b) == b >= 240
LiteClass(b) == b >= 192 /\ b < 240

\* C14 as stated, for the lead byte the decoder stands at: ExtractCodeId
\* returns a defined order code; the REGULAR class gives b >> 5 in 0 .. 4, the MEGA/SPECIAL class gives
\* b itself as a defined code, all other bytes give b >> 4 in {12, 13, 14}.
C14_Classification_AsStated ==
  AtOrder =>
    LET b == call.src[rle.pbSrc + 1]
    IN /\ ExtractCodeId(b) \in DefinedCodes
       /\ RegularClass(b) => (ExtractCodeId(b) = b \div 32 /\ ExtractCodeId(b) \in 0 .. 4)
       /\ MegaSpecialClass(b) => (ExtractCodeId(b) = b /\ b \in DefinedCodes)
       /\ LiteClass(b) => (ExtractCodeId(b) = b \div 16 /\ ExtractCodeId(b) \in {12, 13, 14})

\* the lead byte of the order the step takes
LeadByte == call.src[rle.pbSrc + 1]

\* C14 (amended): ExtractCodeId is total but not onto the defined codes only.
\* The REGULAR class (b < 0xC0) gives b >> 5 in 0 .. 5, where 5, the lead
\* bytes 0xA0 .. 0xBF, is no order code; the MEGA/SPECIAL class gives b itself,
\* a defined code except for 0xF5, 0xFB, 0xFC and 0xFF; the LITE class gives
\* b >> 4 in {12, 13, 14}.  The decoder takes the code of the lead byte from
\* this classification.
C14_Classification ==
  /\ \A b \in 0 .. 255 :
       /\ RegularClass(b) =>
            /\ ExtractCodeId(b) = b \div 32
            /\ ExtractCodeId(b) \in 0 .. 5
            /\ (ExtractCodeId(b) \in DefinedCodes) = (b < 160)
       /\ MegaSpecialClass(b) =>
            /\ ExtractCodeId(b) = b
            /\ (b \in DefinedCodes) = (b \notin {245, 251, 252, 255})
       /\ LiteClass(b) =>
            /\ ExtractCodeId(b) = b \div 16
            /\ ExtractCodeId(b) \in {12, 13, 14}
  /\ [][AtOrder =>
          /\ rle'.code = (IF RegularClass(LeadByte) THEN LeadByte \div 32
                          ELSE IF MegaSpecialClass(LeadByte) THEN LeadByte
                          ELSE LeadByte \div 16)]_vars

\* the decoder has taken the lead byte 0xA0 of the input [0x02, 0xA0], after
\* the order before it, and classified it as code 5, which is no order code
C14_Witness ==
  /\ DecoderRan
  /\ call.src = <<2, 160>>
  /\ rle.pbSrc >= 1
  /\ rle.code = 5
  /\ rle.code \notin DefinedCodes


\* the run length and the advance of the order with lead byte b, first
\* extension byte n and second extension byte m, by the table of the reader
ExpectedRunLength(b, n, m) ==
  IF b \in {240, 241, 242, 243, 244, 246, 247, 248} THEN n + 256 * m
  ELSE IF b < 160 /\ b \div 32 = 2 THEN (IF b % 32 # 0 THEN (b % 32) * 8 ELSE n + 1)
  ELSE IF b < 160 THEN (IF b % 32 # 0 THEN b % 32 ELSE n + 32)
  ELSE IF b \div 16 = 13 THEN (IF b % 16 # 0 THEN (b % 16) * 8 ELSE n + 1)
  ELSE IF b % 16 # 0 THEN b % 16 ELSE n + 16

ExpectedAdvance(b) == 1 + ExtensionBytes(b)

\* the lead bytes of the orders that carry a run length
LengthLeadBytes ==
  (0 .. 159) \cup (192 .. 239) \cup {240, 241, 242, 243, 244, 246, 247, 248}

\* the second extension bytes the property runs over
SecondBytes == {0, 1, 128, 255}

\* the reader applied to an order that ends with the last byte of the input
ReadAtEnd(b, n, m) ==
  LET src == SubSeq(<<b, n, m>>, 1, ExpectedAdvance(b))
  IN ExtractRunLength(ExtractCodeId(b), src, 0, Len(src), 0)

\* the reader applied to the same order followed by further input, at offset 1
ReadInside(b, n, m) ==
  ExtractRunLength(ExtractCodeId(b), <<7, b, n, m, 9>>, 1, 5, 0)

\* C15 (run-length extraction): whenever the lead byte and the extension
\* bytes an order needs are inside the input, ExtractRunLength returns, for
\* REGULAR BG/FG/COLOR-RUN/COLOR-IMAGE, the low 5 bits f if f # 0 else n + 32;
\* for REGULAR FGBG-IMAGE, f * 8 if f # 0 else n + 1; for LITE
\* SET-FG-RUN/DITHERED-RUN, the low 4 bits f if f # 0 else n + 16; for LITE
\* SET-FG-FGBG-IMAGE, f * 8 if f # 0 else n + 1; for MEGA orders,
\* byte1 + 256 * byte2.  The advance is 1 plus the number of extension bytes
\* read, one of 1, 2, 3.  The decoder executes an order with this length and
\* moves its input cursor by this advance and the data of the order.
C15_RunLengthExtraction ==
  /\ \A b \in LengthLeadBytes, n \in 0 .. 255 :
       \A m \in (IF ExtensionBytes(b) = 2 THEN SecondBytes ELSE {0}) :
         /\ ReadAtEnd(b, n, m).runLength = ExpectedRunLength(b, n, m)
         /\ ReadAtEnd(b, n, m).advance = ExpectedAdvance(b)
         /\ ReadInside(b, n, m).runLength = ExpectedRunLength(b, n, m)
         /\ ReadInside(b, n, m).advance = ExpectedAdvance(b)
         /\ ExpectedAdvance(b) \in {1, 2, 3}
  /\ [][Executes(LengthCodes) =>
          /\ rle'.runLength = ExpectedRunLength(LeadByte, Deref(call.src, rle.pbSrc + 1),
                                                Deref(call.src, rle.pbSrc + 2))
          /\ rle'.pbSrc = rle.pbSrc + ExpectedAdvance(LeadByte)
                            + PixelsIn(rle'.code, rle'.runLength) * PixelSize
                            + MasksIn(rle'.code, rle'.runLength)]_vars

\* a MEGA_MEGA_BG_RUN whose two length bytes give 2 was executed
C15_Witness ==
  /\ DecoderRan
  /\ rle.cause = "None"
  /\ rle.code = MEGA_MEGA_BG_RUN
  /\ rle.runLength = 2
  /\ rle.pbSrc >= 3
  /\ SubSeq(call.src, rle.pbSrc - 2, rle.pbSrc) = <<240, 2, 0>>


\* bit k of the mask bytes that start at offset p of the input, the least
\* significant bit of a byte first
MaskBit(p, k) == (call.src[p + (k \div 8) + 1] \div (2 ^ (k % 8))) % 2

\* the pixel at offset at of the scratch buffer after the step, and the
\* background of that place: BLACK on the first scanline, the pixel above
\* otherwise
PixelAfter(at) == LittleEndian(ctx'.TempBuffer.bytes, at, PixelSize)
BackgroundAfter(at) ==
  IF at < call.width * PixelSize THEN 0 ELSE PixelAfter(at - call.width * PixelSize)

\* the bytes of the scratch buffer outside the n bytes from offset at on are
\* as before the step
OnlyWritten(at, n) ==
  /\ Len(ctx'.TempBuffer.bytes) <= (IF Len(ctx.TempBuffer.bytes) > at + n
                                    THEN Len(ctx.TempBuffer.bytes) ELSE at + n)
  /\ \A i \in 1 .. Len(ctx.TempBuffer.bytes) :
       (i <= at \/ i > at + n) => ctx'.TempBuffer.bytes[i] = ctx.TempBuffer.bytes[i]

\* C16 (FGBG_IMAGE): an FGBG_IMAGE of run length L consumes exactly
\* ceil(L / 8) mask bytes and writes exactly L pixels; pixel k is selected by
\* bit k mod 8 (least significant bit first) of mask byte k div 8; a clear bit
\* writes the background (BLACK on the first scanline, the pixel above
\* otherwise), a set bit the background XOR the current foreground; the last
\* mask byte covers only L mod 8 pixels when that is not 0; the current
\* foreground stays as it was.
C16_FgBgImage ==
  [][Executes(FgBgImageCodes) =>
       LET L == rle'.runLength
           masks == rle.pbSrc + ExpectedAdvance(LeadByte)
       IN /\ L = ExpectedRunLength(LeadByte, Deref(call.src, rle.pbSrc + 1),
                                   Deref(call.src, rle.pbSrc + 2))
          /\ rle'.pbSrc = masks + (L \div 8) + (IF L % 8 # 0 THEN 1 ELSE 0)
          /\ rle'.pbDest = rle.pbDest + L * PixelSize
          /\ OnlyWritten(rle.pbDest, L * PixelSize)
          /\ \A k \in 0 .. (L - 1) :
               LET at == rle.pbDest + k * PixelSize
               IN PixelAfter(at) = IF MaskBit(masks, k) = 1
                                   THEN BitXor(BackgroundAfter(at), rle.fgPel)
                                   ELSE BackgroundAfter(at)
          /\ rle'.fgPel = rle.fgPel]_vars

\* an FGBG_IMAGE of 10 pixels, two mask bytes, was executed on the second
\* scanline of the 8 bpp 12x2 tile below a colour run of 0x0F
C16_Witness ==
  /\ DecoderRan
  /\ pc = "idle"
  /\ call.ret = "TRUE"
  /\ call.src = <<108, 15, 64, 9, 165, 2, 2>>
  /\ call.width = 12 /\ call.height = 2 /\ call.bpp = 8
  /\ SubSeq(ctx.TempBuffer.bytes, 13, 24)
       = <<240, 15, 240, 15, 15, 240, 15, 240, 15, 240, 15, 15>>


\* the decoder loop as a function: the orders of src executed from the state d
\* on the buffer buf until the tile of tileBytes bytes is complete (ok) or a
\* check fails; a lead byte that is no order is stepped over, the one way in
\* which a decode that meets such a byte can end complete
RECURSIVE RleDecode(_, _, _, _, _, _)
RleDecode(src, buf, d, Bpp, rowDelta, tileBytes) ==
  IF d.pbDest >= tileBytes THEN [ok |-> TRUE, d |-> d, buf |-> buf]
  ELSE IF d.pbSrc >= Len(src) THEN [ok |-> FALSE, d |-> d, buf |-> buf]
  ELSE LET r == ExecOrder(src, buf, d, Bpp, rowDelta, FALSE)
       IN IF r.d.cause # "None" THEN [ok |-> FALSE, d |-> r.d, buf |-> r.buf]
          ELSE RleDecode(src, r.buf, r.d, Bpp, rowDelta, tileBytes)

\* the destination a decode of src gives for the geometry of the last call,
\* <<>> when the decode fails
OutputOf(src) ==
  LET r == RleDecode(src, <<>>, DecoderInit(PixelSize), PixelSize,
                     call.width * PixelSize, ExpectedTileBytes)
  IN IF r.ok THEN freerdp_image_copy_flip(r.buf, call.width * PixelSize, call.height)
     ELSE <<>>

\* the last scanline is complete and input is left
CompleteWithResidue ==
  /\ DecoderRan
  /\ rle.pbDest >= ExpectedTileBytes
  /\ rle.pbSrc < Len(call.src)

\* C17 (trailing input): once the last scanline of the tile is written, the
\* input bytes that remain are ignored: they are not read, the decoder
\* succeeds and the call goes on to the copy to the surface, returns success
\* (the copy not failing), and its output is the output of the call on the
\* input without those bytes, whatever they are.
C17_TrailingInputIgnored ==
  /\ [][(CompleteWithResidue /\ pc = "rle") =>
          /\ pc' = "idle"
          /\ call'.copy \in {"TRUE", "FALSE"}
          /\ call'.ret = call'.copy
          /\ rle' = rle
          /\ ctx' = ctx]_vars
  /\ []((CompleteWithResidue /\ pc = "idle" /\ ~ CopyFailed) =>
          /\ call.ret = "TRUE"
          /\ rle.readHigh <= rle.pbSrc
          /\ ExpectedTileBytes > 0 => pDstData = OutputOf(SubSeq(call.src, 1, rle.pbSrc)))

\* the 8 bpp 4x1 tile was complete after the first byte of [0x04, 0xA0]; the
\* byte left, which is no order, did not stop the call
C17_Witness ==
  /\ CompleteWithResidue
  /\ pc = "idle"
  /\ call.ret = "TRUE"
  /\ call.src = <<4, 160>>
  /\ call.width = 4 /\ call.height = 1 /\ call.bpp = 8
  /\ rle.pbSrc = 1
  /\ pDstData = <<0, 0, 0, 0>>


\* C18 (scratch buffer of the context): after bitmap_interleaved_context_new
\* and after any sequence of interleaved_decompress calls, those in which the
\* growth of the scratch buffer fails included, TempBuffer is not null, its
\* capacity is at least TempSize, and TempSize is at least 64 * 64 * 4 and
\* never decreases, as long as the context is not freed.
C18_ScratchInvariant ==
  /\ [](pc # "freed" =>
          /\ ~ ctx.TempBuffer.null
          /\ ctx.TempBuffer.cap >= ctx.TempSize
          /\ ctx.TempSize >= 64 * 64 * 4)
  /\ [][pc' # "freed" => ctx'.TempSize >= ctx.TempSize]_vars

\* the part of C18 the code meets: TempSize is at least 64 * 64 * 4 and never
\* decreases, and a scratch buffer that is not null has a capacity of at least
\* TempSize
C18_ScratchOfTheCode ==
  /\ [](pc # "freed" =>
          /\ ctx.TempSize >= 64 * 64 * 4
          /\ ~ ctx.TempBuffer.null => ctx.TempBuffer.cap >= ctx.TempSize)
  /\ [][pc' # "freed" => ctx'.TempSize >= ctx.TempSize]_vars

\* the growth of the scratch buffer for the 8 bpp 4x4128 tile has failed
C18_GrowthFailed ==
  /\ call.op = "decompress"
  /\ call.oom
  /\ call.ret = "FALSE"
  /\ ctx.TempBuffer.null
  /\ ctx.TempSize = 4 * 4128


\* the true product w * h * size is at most cap, decided by divisions so that
\* the product itself, which may lie beyond 2^32, is never formed
ProductAtMost(cap, w, h, size) ==
  \/ w = 0
  \/ h = 0
  \/ /\ w <= cap \div size
     /\ h <= cap \div (w * size)

\* C19 (scratch sizing arithmetic): for every nSrcWidth, nSrcHeight and
\* supported bpp, at the moment interleaved_decompress invokes the RLE decoder
\* the capacity of the scratch buffer is at least the true product
\* nSrcWidth * nSrcHeight * bytes_per_pixel: the 32 bit computations of
\* scanline and BufferSize do not wrap to a smaller value.
C19_ScratchCoversTile ==
  (call.op = "decompress" /\ pc = "rle") =>
    ProductAtMost(ctx.TempBuffer.cap, call.width, call.height, PixelSize)

\* the part of C19 the code meets: the capacity covers every tile whose true
\* size is below 2^31, where neither multiplication wraps
C19_SizingWithoutWrap ==
  ( /\ call.op = "decompress"
    /\ pc = "rle"
    /\ ProductAtMost(2147483647, call.width, call.height, PixelSize) )
  => ProductAtMost(ctx.TempBuffer.cap, call.width, call.height, PixelSize)

\* the decoder is invoked for a tile of 65537 x 65537 bytes on a scratch
\* buffer of 131073 bytes, the product modulo 2^32
C19_Wrapped ==
  /\ pc = "rle"
  /\ call.width = 65537 /\ call.height = 65537 /\ call.bpp = 8
  /\ ctx.TempSize = 131073
  /\ ctx.TempBuffer.cap = 131073

====
